---- MODULE Spec2Model ----
(***************************************************************************)
(* Order session core of the LiveKit calling agent: the in-memory cart     *)
(* (src/src/db.py create_cart / update_cart), the product lookup it rests  *)
(* on (get_product_by_id), the compact menu (build_compact_menu) and the   *)
(* four tools of the Assistant (src/src/agent.py).                         *)
(*                                                                         *)
(* Conventions.                                                            *)
(*  - Python's Optional: None is <<>>, a present value x is <<x>>.         *)
(*  - Money is an integer number of fils (1/1000 KWD).  The prices, tax    *)
(*    rates and discounts of the model are multiples of 1/8, which binary  *)
(*    floats hold exactly, so float(base_price) * quantity and the sum of  *)
(*    the items are exact.  round(x, 2) rounds to a multiple of 10 fils;   *)
(*    a rounded amount is a float that is exact only when it is a multiple *)
(*    of 0.25 (see round_total).                                           *)
(*  - Text that is searched (menu fields, queries) is a sequence of        *)
(*    one-letter strings, so that lower() and `in` are computed.           *)
(*  - A str the tools return is a record [msg, args]: the source's literal *)
(*    or f-string, and the values formatted into it.                       *)
(***************************************************************************)
EXTENDS Integers, Sequences, FiniteSets, TLC

\* ------------------------------------------------------------------ bounds
\* Largest quantity a call passes, and the cap on `quantity += 1`.
MaxQty == 3

\* ------------------------------------------------------------------ Python values
None == <<>>
Some(x) == <<x>>
IsNone(o) == o = <<>>
Val(o) == o[1]

RECURSIVE SumSeq(_)
\* sum(...) over a sequence of integers
SumSeq(s) == IF s = <<>> THEN 0 ELSE Head(s) + SumSeq(Tail(s))

\* n/d rounded to the nearest integer, ties to even (d > 0): Python's round()
RoundHalfEven(n, d) ==
    LET q == n \div d
        r == n % d
    IN  IF 2 * r < d THEN q
        ELSE IF 2 * r > d THEN q + 1
        ELSE IF q % 2 = 0 THEN q ELSE q + 1

\* round(x, 2) of an amount of n/d fils, in fils
Round2(n, d) == 10 * RoundHalfEven(n, 10 * d)

\* ------------------------------------------------------------------ the products table
\* Rows of the products table; "PX" is an id no row has, "" the empty id.
ProductRows == {"P1", "P2", "P3"}
ProductIds == ProductRows \cup {"PX", ""}
\* The rows of the business whose menu the session loads.
BusinessRows == {"P1", "P2"}

\* base_price values a row can be set to (fils); P3's base_price is NULL.
PriceOptions(p) ==
    IF p = "P1" THEN {Some(1250), Some(1375)}
    ELSE IF p = "P2" THEN {Some(375)}
    ELSE {None}

\* The columns that never change in the model.
StaticRow(p) ==
    IF p = "P1" THEN
        [id |-> "P1", name |-> <<"B", "u", "n">>, name_ar |-> Some(<<"k">>),
         description |-> Some(<<"h", "o", "t">>), description_ar |-> None,
         category |-> Some(<<"M">>), category_ar |-> None]
    ELSE IF p = "P2" THEN
        [id |-> "P2", name |-> <<"T", "e", "a">>, name_ar |-> None,
         description |-> Some(<<"h", "o", "t">>), description_ar |-> None,
         category |-> Some(<<"D">>), category_ar |-> Some(<<"m">>)]
    ELSE
        [id |-> "P3", name |-> <<"N", "u", "t">>, name_ar |-> None,
         description |-> None, description_ar |-> None,
         category |-> None, category_ar |-> None]

\* A row as the data store returns it; the table variable holds the two
\* columns that change.
Row(p, price, avail) ==
    [id |-> StaticRow(p).id, name |-> StaticRow(p).name,
     name_ar |-> StaticRow(p).name_ar,
     description |-> StaticRow(p).description,
     description_ar |-> StaticRow(p).description_ar,
     category |-> StaticRow(p).category,
     category_ar |-> StaticRow(p).category_ar,
     base_price |-> price, is_available |-> avail]

\* Outcomes of one request to the data store.
DbOutcomes == {"ok", "fault"}

\* Variant: the is_available filter of the query is left out.
get_product_by_id_any(table, product_id, db) ==
    IF db = "fault" THEN None
    ELSE IF product_id \in DOMAIN table
         THEN Some(Row(product_id, table[product_id].base_price,
                       table[product_id].is_available))
         ELSE None

\* get_product_by_id: the row with that id that is available; None when there
\* is none, and None as well when the request fails (the except branch).
get_product_by_id(table, product_id, db) ==
    IF db = "fault" THEN None
    ELSE IF product_id \in DOMAIN table /\ table[product_id].is_available
         THEN Some(Row(product_id, table[product_id].base_price, TRUE))
         ELSE None

\* ------------------------------------------------------------------ the cart engine
create_cart(location_id, customer_id) ==
    [location_id |-> location_id, customer_id |-> customer_id,
     items |-> <<>>, subtotal |-> 0, tax_amount |-> 0,
     discount_amount |-> 0, total_amount |-> 0]

\* Variant: the search never finds the item.
existing_item_never(items, product_id) == 0

\* next((item for item in cart["items"] if item["product_id"] == product_id), None)
\* as the index of that item, 0 for None.
existing_item(items, product_id) ==
    IF \E i \in 1..Len(items) : items[i].product_id = product_id
    THEN CHOOSE i \in 1..Len(items) :
            /\ items[i].product_id = product_id
            /\ \A j \in 1..(i - 1) : items[j].product_id # product_id
    ELSE 0

\* `if quantity:` - the quantity is given and is not 0
QuantityGiven(quantity) == ~IsNone(quantity) /\ Val(quantity) # 0

\* `x or default` for an optional list or str: a given non-empty x, else default
OrElse(x, empty, default) ==
    IF ~IsNone(x) /\ Val(x) # empty THEN Val(x) ELSE default

\* Variant: an omitted quantity leaves the quantity as it is.
updated_quantity_keep(old, quantity) ==
    IF ~IsNone(quantity) /\ Val(quantity) # 0 THEN Val(quantity) ELSE old

\* Variant: a given quantity is added to the quantity.
updated_quantity_add(old, quantity) ==
    IF ~IsNone(quantity) /\ Val(quantity) # 0 THEN old + Val(quantity) ELSE old + 1

\* The quantity of an item that is already in the cart.
updated_quantity(old, quantity) ==
    IF QuantityGiven(quantity) THEN Val(quantity) ELSE old + 1

\* The existing-item branch.
update_existing(item, quantity, selected_options, special_instructions, unit_price) ==
    LET q == updated_quantity(item.quantity, quantity)
    IN  [item EXCEPT
            !.quantity = q,
            !.selected_options = OrElse(selected_options, <<>>, item.selected_options),
            !.special_instructions = OrElse(special_instructions, "", item.special_instructions),
            !.total_price = q * unit_price]

\* Variant: the total_price of a new item is its unit price.
new_item_unit_total(product, product_id, quantity, selected_options, special_instructions, unit_price) ==
    [product_id |-> product_id,
     name |-> product.name,
     quantity |-> IF ~IsNone(quantity) /\ Val(quantity) # 0 THEN Val(quantity) ELSE 1,
     unit_price |-> unit_price,
     total_price |-> unit_price,
     selected_options |-> IF ~IsNone(selected_options) THEN Val(selected_options) ELSE <<>>,
     special_instructions |-> IF ~IsNone(special_instructions) THEN Val(special_instructions) ELSE ""]

\* The new-item branch.
new_item(product, product_id, quantity, selected_options, special_instructions, unit_price) ==
    LET q == IF QuantityGiven(quantity) THEN Val(quantity) ELSE 1
    IN  [product_id |-> product_id,
         name |-> product.name,
         quantity |-> q,
         unit_price |-> unit_price,
         total_price |-> q * unit_price,
         selected_options |-> OrElse(selected_options, <<>>, <<>>),
         special_instructions |-> OrElse(special_instructions, "", "")]

\* The side a sum that is a rounding tie on paper falls to once it is
\* computed in binary floating point with an inexact operand.
FloatTies == {"down", "up"}

\* round(cart["subtotal"] + cart["tax_amount"] - cart["discount_amount"], 2).
\* subtotal and discount_amount are exact floats; tax_amount is exact when it
\* is a multiple of 0.25, and then the tie goes to the even neighbour.
\* Otherwise the float sum lies just below or just above the tie, and the
\* result is the neighbour on that side.
round_total(subtotal, tax, discount_amount, tie) ==
    LET n == subtotal + tax - discount_amount
    IN  IF n % 10 # 5 \/ tax % 250 = 0 THEN Round2(n, 1)
        ELSE IF tie = "down" THEN n - 5 ELSE n + 5

\* Variant: the subtotal is carried on from call to call.
recalculate_totals_accumulating(c, tax_rate, discount_amount, tie) ==
    LET subtotal == c.subtotal +
                    (IF c.items = <<>> THEN 0 ELSE c.items[Len(c.items)].total_price)
        tax == Round2(subtotal * tax_rate, 8)
    IN  [c EXCEPT
            !.subtotal = subtotal,
            !.discount_amount = discount_amount,
            !.tax_amount = tax,
            !.total_amount = round_total(subtotal, tax, discount_amount, tie)]

\* Variant: a call that gives no discount keeps the discount the cart has.
recalculate_totals_sticky(c, tax_rate, discount_amount, tie) ==
    LET subtotal == SumSeq([i \in 1..Len(c.items) |-> c.items[i].total_price])
        tax == Round2(subtotal * tax_rate, 8)
        discount == IF discount_amount = 0 THEN c.discount_amount ELSE discount_amount
    IN  [c EXCEPT
            !.subtotal = subtotal,
            !.discount_amount = discount,
            !.tax_amount = tax,
            !.total_amount = round_total(subtotal, tax, discount, tie)]

\* "Always recalculate totals".  tax_rate is in eighths (2 is 0.25).
recalculate_totals(c, tax_rate, discount_amount, tie) ==
    LET subtotal == SumSeq([i \in 1..Len(c.items) |-> c.items[i].total_price])
        tax == Round2(subtotal * tax_rate, 8)
    IN  [c EXCEPT
            !.subtotal = subtotal,
            !.discount_amount = discount_amount,
            !.tax_amount = tax,
            !.total_amount = round_total(subtotal, tax, discount_amount, tie)]

Raised(e) == [raised |-> TRUE, error |-> e, new_cart |-> None]
Returned(c) == [raised |-> FALSE, error |-> <<>>, new_cart |-> Some(c)]

\* Variant: a new item is put at the head of the list.
update_cart_prepending(cart, product, product_id, quantity, selected_options, special_instructions, tax_rate, discount_amount, tie) ==
    IF IsNone(cart) THEN Raised(<<"Cart object is required">>)
    ELSE IF product_id = "" THEN
        Returned(recalculate_totals(Val(cart), tax_rate, discount_amount, tie))
    ELSE IF IsNone(product) THEN
        Raised(<<"Product ", product_id, " not found or unavailable">>)
    ELSE IF IsNone(Val(product).base_price) THEN
        Raised(<<"float() argument must be a string or a number, not 'NoneType'">>)
    ELSE
        LET c == Val(cart)
            idx == existing_item(c.items, product_id)
            unit_price == Val(Val(product).base_price)
            items == IF idx # 0
                     THEN [c.items EXCEPT ![idx] =
                             update_existing(@, quantity, selected_options,
                                             special_instructions, unit_price)]
                     ELSE <<new_item(Val(product), product_id, quantity,
                                     selected_options, special_instructions,
                                     unit_price)>> \o c.items
        IN  Returned(recalculate_totals([c EXCEPT !.items = items],
                                        tax_rate, discount_amount, tie))

\* update_cart on the cart object `cart` (None for no cart), `product` being
\* what get_product_by_id answered.  Every raise comes before the first write.
update_cart(cart, product, product_id, quantity, selected_options, special_instructions, tax_rate, discount_amount, tie) ==
    IF IsNone(cart) THEN Raised(<<"Cart object is required">>)
    ELSE IF product_id = "" THEN
        Returned(recalculate_totals(Val(cart), tax_rate, discount_amount, tie))
    ELSE IF IsNone(product) THEN
        Raised(<<"Product ", product_id, " not found or unavailable">>)
    ELSE IF IsNone(Val(product).base_price) THEN
        Raised(<<"float() argument must be a string or a number, not 'NoneType'">>)
    ELSE
        LET c == Val(cart)
            idx == existing_item(c.items, product_id)
            unit_price == Val(Val(product).base_price)
            items == IF idx # 0
                     THEN [c.items EXCEPT ![idx] =
                             update_existing(@, quantity, selected_options,
                                             special_instructions, unit_price)]
                     ELSE Append(c.items,
                             new_item(Val(product), product_id, quantity,
                                      selected_options, special_instructions,
                                      unit_price))
        IN  Returned(recalculate_totals([c EXCEPT !.items = items],
                                        tax_rate, discount_amount, tie))

\* ------------------------------------------------------------------ the menu
\* `a or b` on two optional columns
Either(a, b) == IF ~IsNone(a) /\ Val(a) # <<>> THEN a ELSE b

\* One item of build_compact_menu.  The rows of the model carry no menu_json
\* blob and no short_code column, so every menu_json fallback is None.
compact_item(p) ==
    [id |-> Some(p.id),
     short_code |-> None,
     name |-> Either(Some(p.name), None),
     name_ar |-> Either(p.name_ar, None),
     description |-> Either(p.description, None),
     description_ar |-> Either(p.description_ar, None),
     price |-> IF ~IsNone(p.base_price) /\ Val(p.base_price) # 0
               THEN p.base_price ELSE None,
     in_stock |-> p.is_available,
     category |-> Either(p.category, None),
     category_ar |-> Either(p.category_ar, None)]

build_compact_menu(rows) ==
    [items |-> [i \in 1..Len(rows) |-> compact_item(rows[i])],
     count |-> Len(rows)]

\* get_menu_by_phone: the available rows of the business in table order,
\* the empty list when the request fails.
get_menu_by_phone(table, db) ==
    IF db = "fault" THEN <<>>
    ELSE LET P1s == IF table["P1"].is_available
                    THEN <<Row("P1", table["P1"].base_price, TRUE)>> ELSE <<>>
             P2s == IF table["P2"].is_available
                    THEN <<Row("P2", table["P2"].base_price, TRUE)>> ELSE <<>>
         IN  P1s \o P2s

\* str.lower() on one letter
LowerChar(ch) ==
    CASE ch = "B" -> "b" [] ch = "T" -> "t" [] ch = "N" -> "n"
      [] ch = "M" -> "m" [] ch = "D" -> "d" [] ch = "H" -> "h"
      [] OTHER -> ch

Lower(t) == [i \in 1..Len(t) |-> LowerChar(t[i])]

\* `q in t` on strings
Contains(q, t) ==
    \E k \in 0..(Len(t) - Len(q)) :
        \A i \in 1..Len(q) : t[k + i] = q[i]

\* (item.get(field) or "")
FieldText(f) == IF IsNone(f) THEN <<>> ELSE Val(f)

\* The `any(...)` of lookup_menu over the six text fields.
item_matches(q, item) ==
    \E f \in {item.name, item.name_ar, item.category, item.category_ar,
              item.description, item.description_ar} :
        Contains(q, Lower(FieldText(f)))

RECURSIVE SelectSeq2(_, _)
\* the items of `items` that match q, in order
SelectSeq2(q, items) ==
    IF items = <<>> THEN <<>>
    ELSE (IF item_matches(q, Head(items)) THEN <<Head(items)>> ELSE <<>>)
         \o SelectSeq2(q, Tail(items))

\* Variant: the matches are collected from the end of the menu.
lookup_matches_reversed(menu, query) ==
    LET m == SelectSeq2(Lower(query), menu.items)
    IN  [i \in 1..Len(m) |-> m[Len(m) + 1 - i]]

lookup_matches(menu, query) == SelectSeq2(Lower(query), menu.items)

\* ------------------------------------------------------------------ what a tool hands back
Str(msg, args) == [kind |-> "str", msg |-> msg, args |-> args]
ReturnsNone == [kind |-> "None", msg |-> "", args |-> <<>>]
Propagates(e) == [kind |-> "exception", msg |-> "", args |-> e]
ReturnsCart == [kind |-> "cart", msg |-> "", args |-> <<>>]

\* ------------------------------------------------------------------ the menu summary
\* str.strip() on a text: what lies between its first and its last letter
\* that is no blank.
Strip(t) ==
    LET solid == {i \in 1..Len(t) : t[i] # " "}
    IN  IF solid = {} THEN <<>>
        ELSE SubSeq(t, CHOOSE i \in solid : \A j \in solid : i <= j,
                       CHOOSE i \in solid : \A j \in solid : j <= i)

\* top_n of summarize_menu
TopN == 3

\* fmt_price: f"{float(p):.2f}" of an exact price is the price rounded to two
\* places; None (the empty string) for no price.
fmt_price(p) == IF IsNone(p) THEN None ELSE Some(Round2(Val(p), 1))

\* One line of the summary: the code (the item's short_code, else the first
\* 8 characters of its id, else "unknown"), the name in one of its four
\* forms, and the price suffix.
summary_line(i) ==
    LET name_en == Strip(FieldText(i.name))
        name_ar == Strip(FieldText(i.name_ar))
    IN  [code |-> IF ~IsNone(i.short_code) /\ Val(i.short_code) # <<>>
                  THEN [of |-> "short_code", text |-> Val(i.short_code)]
                  ELSE IF ~IsNone(i.id) /\ Val(i.id) # ""
                  THEN [of |-> "id[:8]", text |-> Val(i.id)]
                  ELSE [of |-> "literal", text |-> "unknown"],
         name |-> IF name_en # <<>> /\ name_ar # <<>>
                  THEN Str("{name_en} / {name_ar}", <<name_en, name_ar>>)
                  ELSE IF name_en # <<>> THEN Str("{name_en}", <<name_en>>)
                  ELSE IF name_ar # <<>> THEN Str("{name_ar}", <<name_ar>>)
                  ELSE Str("Unnamed", <<>>),
         price_suffix |-> fmt_price(i.price)]

\* The categories of one language, duplicates removed by a set (whose order
\* Python does not fix), at most 10 of them; "None" for no category.
category_list(cats) ==
    LET found == {Val(c) : c \in {c \in cats : ~IsNone(c) /\ Val(c) # <<>>}}
    IN  IF found = {} THEN Str("None", <<>>)
        ELSE Str("{', '.join(categories[:10])}",
                 <<IF Cardinality(found) <= 10 THEN found
                   ELSE CHOOSE part \in SUBSET found : Cardinality(part) = 10>>)

\* summarize_menu(compact_menu, top_n): "No menu available." for a menu that
\* is falsy (None; a menu dict with its keys is not), and otherwise the
\* digest of the first top_n items and the categories of all items.
summarize_menu(compact_menu, top_n) ==
    IF IsNone(compact_menu) THEN Str("No menu available.", <<>>)
    ELSE
        LET items == Val(compact_menu).items
            top == SubSeq(items, 1, IF Len(items) < top_n THEN Len(items) ELSE top_n)
            lines == [k \in 1..Len(top) |-> summary_line(top[k])]
            items_summary == IF lines = <<>> THEN Str("No items available.", <<>>)
                             ELSE Str("{'; '.join(lines)}.", lines)
        IN  Str("Top {top_count} items: {items_summary} Categories (EN): {cat_en_str}. Categories (AR): {cat_ar_str}.",
                <<Len(top), items_summary,
                  category_list({items[k].category : k \in 1..Len(items)}),
                  category_list({items[k].category_ar : k \in 1..Len(items)})>>)

\* Variant: no quantity is rejected.
quantity_rejected_never(quantity) == FALSE

\* Variant: only a negative quantity is rejected.
quantity_rejected_negative(quantity) == quantity < 0

\* `if quantity <= 0` of add_to_cart
quantity_rejected(quantity) == quantity <= 0

\* Variant: the exception is raised again.
add_to_cart_reraise(e) == Propagates(e)

\* `except Exception as e` of add_to_cart: what the handler returns.
add_to_cart_except(e) ==
    Str("Sorry, I couldn't add that item to your cart. {e}", e)

\* Variant: the default quantity is handed on as no quantity at all.
add_to_cart_resumed_default_omitted(cart, product, product_id, quantity, special_instructions) ==
    LET r == update_cart(cart, product, product_id,
                         IF quantity = 1 THEN None ELSE Some(quantity),
                         Some(<<>>), Some(special_instructions), 0, 0, "down")
        n == IF IsNone(cart) THEN 0 ELSE 1
    IN  IF r.raised THEN
            [ret |-> add_to_cart_except(r.error),
             new_cart |-> None, lookups |-> n, logged |-> TRUE]
        ELSE
            LET c == Val(r.new_cart)
                idx == existing_item(c.items, product_id)
            IN  [ret |-> Str("Added {name} (quantity: {quantity}) to your cart. Cart total: {total_amount} KWD",
                             <<c.items[idx].name, c.items[idx].quantity, c.total_amount>>),
                 new_cart |-> r.new_cart, lookups |-> n, logged |-> FALSE]

\* Assistant.add_to_cart from the point where the product lookup inside
\* update_cart has answered with `product`: the rest of update_cart, the
\* assignment to self.cart and the feedback string, or the except branch.
\* It passes no tax_rate: tax_amount is 0.0, the total is rounded from an
\* exact sum, and the side of an inexact tie is never read.
add_to_cart_resumed(cart, product, product_id, quantity, special_instructions) ==
    LET r == update_cart(cart, product, product_id, Some(quantity), Some(<<>>),
                         Some(special_instructions), 0, 0, "down")
        n == IF IsNone(cart) THEN 0 ELSE 1
    IN  IF r.raised THEN
            [ret |-> add_to_cart_except(r.error),
             new_cart |-> None, lookups |-> n, logged |-> TRUE]
        ELSE
            LET c == Val(r.new_cart)
                idx == existing_item(c.items, product_id)
            IN  [ret |-> IF idx # 0
                         THEN Str("Added {name} (quantity: {quantity}) to your cart. Cart total: {total_amount} KWD",
                                  <<c.items[idx].name, c.items[idx].quantity, c.total_amount>>)
                         ELSE Str("Item added to cart successfully", <<>>),
                 new_cart |-> r.new_cart, lookups |-> n, logged |-> FALSE]

\* The body of Assistant.add_to_cart on the cart object `cart`: what it
\* returns, the cart object afterwards (None: not written), the number of
\* product lookups it made and whether logger.error ran.
add_to_cart_body(cart, table, product_id, quantity, special_instructions, db) ==
    IF product_id = "" THEN
        [ret |-> Str("Invalid product ID provided.", <<>>),
         new_cart |-> None, lookups |-> 0, logged |-> FALSE]
    ELSE IF quantity_rejected(quantity) THEN
        [ret |-> Str("Quantity must be a positive number.", <<>>),
         new_cart |-> None, lookups |-> 0, logged |-> FALSE]
    ELSE
        add_to_cart_resumed(cart, get_product_by_id(table, product_id, db),
                            product_id, quantity, special_instructions)

\* Variant: the amount read out is the subtotal.
view_cart_body_subtotal(cart) ==
    IF IsNone(cart) THEN
        Str("Sorry, I couldn't retrieve your cart information.", <<>>)
    ELSE IF Val(cart).items = <<>> THEN Str("Your cart is empty right now.", <<>>)
    ELSE IF Len(Val(cart).items) = 1 THEN
        Str("You have {quantity} {name} in your cart for {total_amount} KWD.",
            <<Val(cart).items[1].quantity, Val(cart).items[1].name, Val(cart).subtotal>>)
    ELSE
        Str("You have {n} items in your cart for a total of {total_amount} KWD.",
            <<Len(Val(cart).items), Val(cart).subtotal>>)

\* The body of Assistant.view_cart: the str it returns.
view_cart_body(cart) ==
    IF IsNone(cart) THEN
        Str("Sorry, I couldn't retrieve your cart information.", <<>>)
    ELSE LET c == Val(cart) IN
        IF c.items = <<>> THEN Str("Your cart is empty right now.", <<>>)
        ELSE IF Len(c.items) = 1 THEN
            Str("You have {quantity} {name} in your cart for {total_amount} KWD.",
                <<c.items[1].quantity, c.items[1].name, c.total_amount>>)
        ELSE
            Str("You have {n} items in your cart for a total of {total_amount} KWD.",
                <<Len(c.items), c.total_amount>>)

\* Outcomes of session.say, of the call-control request, of generate_reply.
CallOutcomes == {"ok", "fail"}

\* One sentence of lookup_menu per match.
match_sentence(m) ==
    Str("Certainly. The {name} is made with {description} and costs {price} K.D.",
        <<m.name, m.description, m.price>>)

\* The body of Assistant.lookup_menu: what is handed to session.say, and what
\* the tool returns; nothing guards the failure of session.say.
lookup_menu_body(menu, query, say) ==
    IF IsNone(menu) THEN
        [said |-> <<>>, ret |-> Propagates(<<"'NoneType' object has no attribute 'get'">>)]
    ELSE
        LET matches == lookup_matches(Val(menu), query)
            text == IF matches = <<>>
                    THEN <<Str("I'm sorry, I couldn't find anything matching '{query}' on the menu.", <<query>>)>>
                    ELSE [i \in 1..Len(matches) |-> match_sentence(matches[i])]
        IN  IF say = "fail" THEN
                [said |-> <<>>, ret |-> Propagates(<<"session.say failed">>)]
            ELSE IF matches = <<>> THEN
                [said |-> <<text>>,
                 ret |-> Str("Informed the user that no matching menu items were found.", <<>>)]
            ELSE
                [said |-> <<text>>,
                 ret |-> Str("The menu item details have been spoken to the user.", <<>>)]

\* The body of Assistant.transfer_call: `api` is the outcome of the transfer
\* request, `reply` that of generate_reply in the except branch.
transfer_call_body(api, reply) ==
    IF api = "ok" THEN
        [ret |-> ReturnsNone, logged |-> FALSE, reply_requested |-> FALSE]
    ELSE IF reply = "ok" THEN
        [ret |-> ReturnsNone, logged |-> TRUE, reply_requested |-> TRUE]
    ELSE
        [ret |-> Propagates(<<"generate_reply failed">>), logged |-> TRUE,
         reply_requested |-> TRUE]

\* ------------------------------------------------------------------ state
AllSessions == {"s1", "s2"}
\* The sessions that run under Spec.
SpecSessions == {"s1"}

VARIABLES
    products,      \* the products table of the data store: row id -> [base_price, is_available]
    heap,          \* the cart objects create_cart has made, in creation order
    self_cart,     \* per session: the cart the entrypoint / Assistant holds (index into heap, 0 before create_cart)
    self_menu,     \* per session: Assistant.menu (None before it is built)
    menu_summary,  \* per session: the menu summary put into the system message (None before it is built)
    phase,         \* per session: how far the entrypoint has run
    last,          \* per session: the last call made and what it handed back
    distinct_ids,  \* per session: no update call so far named a product id already in the cart
    pending        \* per session: the add_to_cart invocations in flight, one per slot

vars == <<products, heap, self_cart, self_menu, menu_summary, phase, last, distinct_ids, pending>>

\* The cart object a session holds, None before create_cart.
CartOf(s) == IF self_cart[s] = 0 THEN None ELSE Some(heap[self_cart[s]])

\* The arguments of a call besides product_id and quantity: the
\* selected_options and special_instructions update_cart was given (None for
\* a call that gives none), its <<tax_rate, discount_amount>> (the defaults
\* for a call that gives none) and the query of lookup_menu (<<>> otherwise).
Given(selected_options, special_instructions, charges, query) ==
    [selected_options |-> selected_options,
     special_instructions |-> special_instructions,
     charges |-> charges, query |-> query]

NothingGiven == Given(None, None, <<0, 0>>, <<>>)

\* A call of `op` with its product_id and quantity arguments ("" and None for
\* a tool that has none), its other arguments `given`, and the outcome `db`
\* of its request to the data store ("ok" when it made none); what it
\* returned, what it handed to session.say, whether it logged an error, how
\* many product lookups it made, and whether it asked generate_reply for a
\* reply.
\* History: whether a cart carries a tax or a discount from an earlier call.
Charged(cart) ==
    IF IsNone(cart) THEN FALSE
    ELSE IF Val(cart).discount_amount # 0 THEN TRUE
    ELSE Val(cart).tax_amount # 0

\* charged_before is history kept by the calls that reach the cart engine:
\* Charged of the session's cart when the call was made.
Called(op, product_id, quantity, given, db, ret, said, logged, lookups, reply_requested) ==
    [op |-> op, product_id |-> product_id, quantity |-> quantity,
     given |-> given, db |-> db,
     ret |-> ret, said |-> said, logged |-> logged, lookups |-> lookups,
     reply_requested |-> reply_requested, charged_before |-> FALSE]

NoCall == Called("", "", None, NothingGiven, "ok", ReturnsNone, <<>>, FALSE, 0, FALSE)

\* The dialog engine issues the calls of a session one at a time: no call
\* starts while the result of the one before is still to be taken.
Ready(s) == phase[s] = "started" /\ last[s] = NoCall

\* An add_to_cart invocation in flight: where it stands (idle: no invocation
\* in the slot; lookup: suspended on `await get_product_by_id`; answered: the
\* lookup has its result and the coroutine waits to be resumed; returned: the
\* tool has handed back `ret`), its arguments and the product row the lookup
\* read.  found_at_call and overlapped are history: whether the cart held the
\* product when the tool was invoked, and whether another invocation was
\* suspended at the same time before either had touched the cart.
Slots == {1, 2}
Invocation(stage, product_id, quantity, special_instructions, product, ret, found_at_call, overlapped) ==
    [stage |-> stage, product_id |-> product_id, quantity |-> quantity,
     special_instructions |-> special_instructions, product |-> product,
     ret |-> ret, found_at_call |-> found_at_call, overlapped |-> overlapped]
Idle == Invocation("idle", "", 0, "", None, ReturnsNone, FALSE, FALSE)

Init ==
    /\ products = [p \in ProductRows |->
                     [base_price |-> IF p = "P1" THEN Some(1250)
                                     ELSE IF p = "P2" THEN Some(375) ELSE None,
                      is_available |-> TRUE]]
    /\ heap = <<>>
    /\ self_cart = [s \in AllSessions |-> 0]
    /\ self_menu = [s \in AllSessions |-> None]
    /\ menu_summary = [s \in AllSessions |-> None]
    /\ phase = [s \in AllSessions |-> "connecting"]
    /\ last = [s \in AllSessions |-> NoCall]
    /\ distinct_ids = [s \in AllSessions |-> TRUE]
    /\ pending = [s \in AllSessions |-> [k \in Slots |-> Idle]]

\* ------------------------------------------------------------------ the data store changes
\* The table changes while a phone call is in progress, between two calls of
\* the tools (no tool reads the table twice).
InCall ==
    /\ \E s \in AllSessions : phase[s] = "started"
    /\ \A s \in AllSessions : last[s] = NoCall

set_base_price(p, v) ==
    /\ InCall
    /\ products[p].base_price # v
    /\ products' = [products EXCEPT ![p].base_price = v]
    /\ UNCHANGED <<pending, heap, self_cart, self_menu, menu_summary, phase, last, distinct_ids>>

set_is_available(p, b) ==
    /\ InCall
    /\ products[p].is_available # b
    /\ products' = [products EXCEPT ![p].is_available = b]
    /\ UNCHANGED <<pending, heap, self_cart, self_menu, menu_summary, phase, last, distinct_ids>>

\* ------------------------------------------------------------------ entrypoint
LocationId == "22222222-2222-2222-2222-222222222222"

\* Variant: the cart is a module-level object every session is handed.
entrypoint_shared_cart(s) ==
    /\ phase[s] = "connecting"
    /\ heap' = IF heap = <<>> THEN <<create_cart(LocationId, None)>> ELSE heap
    /\ self_cart' = [self_cart EXCEPT ![s] = 1]
    /\ phase' = [phase EXCEPT ![s] = "cart_created"]
    /\ UNCHANGED <<pending, products, self_menu, menu_summary, last, distinct_ids>>

\* cart = await create_cart(location_id=location_id)
entrypoint_create_cart(s) ==
    /\ phase[s] = "connecting"
    /\ heap' = Append(heap, create_cart(LocationId, None))
    /\ self_cart' = [self_cart EXCEPT ![s] = Len(heap) + 1]
    /\ phase' = [phase EXCEPT ![s] = "cart_created"]
    /\ UNCHANGED <<pending, products, self_menu, menu_summary, last, distinct_ids>>

\* The rest of entrypoint: the customer and the menu are fetched, the
\* compact menu is built and summarized for the system message, the
\* Assistant is built on the cart and the compact menu, the customer (when
\* found) is written to the cart, the session starts.
entrypoint_start(s, customer_data, db) ==
    /\ phase[s] = "cart_created"
    /\ self_menu' = [self_menu EXCEPT
                       ![s] = Some(build_compact_menu(get_menu_by_phone(products, db)))]
    /\ menu_summary' = [menu_summary EXCEPT
                       ![s] = Some(summarize_menu(self_menu'[s], TopN))]
    /\ heap' = IF IsNone(customer_data) THEN heap
               ELSE [heap EXCEPT ![self_cart[s]].customer_id = customer_data]
    /\ phase' = [phase EXCEPT ![s] = "started"]
    /\ UNCHANGED <<pending, products, self_cart, last, distinct_ids>>

\* ------------------------------------------------------------------ the cart engine is called
\* The cart object of session s is replaced by what a call left of it.
WriteCart(s, c) ==
    heap' = IF IsNone(c) \/ self_cart[s] = 0 THEN heap
            ELSE [heap EXCEPT ![self_cart[s]] = Val(c)]

WithinBounds(c) ==
    IF IsNone(c) THEN TRUE
    ELSE \A i \in 1..Len(Val(c).items) : Val(c).items[i].quantity <= MaxQty

\* The call names a product id that is in the cart already.
Repeats(cart, product_id) ==
    IF IsNone(cart) THEN FALSE
    ELSE existing_item(Val(cart).items, product_id) # 0

\* update_cart called on the session's cart (given = TRUE) or on no cart.
call_update_cart(s, given, product_id, quantity, selected_options, special_instructions, tax_rate, discount_amount, db, tie) ==
    /\ Ready(s)
    /\ LET target == IF given THEN CartOf(s) ELSE None
           r == update_cart(target, get_product_by_id(products, product_id, db),
                            product_id, quantity, selected_options,
                            special_instructions, tax_rate, discount_amount, tie)
       IN  /\ WithinBounds(r.new_cart)
           /\ WriteCart(s, r.new_cart)
           /\ last' = [last EXCEPT ![s] =
                        [Called("update_cart", product_id, quantity,
                               Given(selected_options, special_instructions,
                                     <<tax_rate, discount_amount>>, <<>>),
                               IF ~IsNone(target) /\ product_id # "" THEN db ELSE "ok",
                               IF r.raised THEN Propagates(r.error) ELSE ReturnsCart,
                               <<>>, FALSE,
                               IF ~IsNone(target) /\ product_id # "" THEN 1 ELSE 0,
                               FALSE)
                         EXCEPT !.charged_before = Charged(target)]]
           /\ distinct_ids' = [distinct_ids EXCEPT ![s] =
                        @ /\ ~(~r.raised /\ Repeats(target, product_id))]
    /\ UNCHANGED <<pending, products, self_cart, self_menu, menu_summary, phase>>

\* ------------------------------------------------------------------ the tools
add_to_cart(s, product_id, quantity, special_instructions, db) ==
    /\ Ready(s)
    /\ LET r == add_to_cart_body(CartOf(s), products, product_id, quantity,
                                 special_instructions, db)
       IN  /\ WriteCart(s, r.new_cart)
           /\ last' = [last EXCEPT ![s] =
                        [Called("add_to_cart", product_id, Some(quantity),
                               Given(Some(<<>>), Some(special_instructions), <<0, 0>>, <<>>),
                               IF r.lookups = 1 THEN db ELSE "ok", r.ret,
                               <<>>, r.logged, r.lookups, FALSE)
                         EXCEPT !.charged_before = Charged(CartOf(s))]]
           /\ distinct_ids' = [distinct_ids EXCEPT ![s] =
                        @ /\ ~(~IsNone(r.new_cart) /\ Repeats(CartOf(s), product_id))]
    /\ UNCHANGED <<pending, products, self_cart, self_menu, menu_summary, phase>>

\* Variant: the view recalculates the totals of the cart before reading it.
view_cart_recalculating(s) ==
    /\ Ready(s)
    /\ self_cart[s] # 0
    /\ heap' = [heap EXCEPT ![self_cart[s]] = recalculate_totals(@, 0, 0, "down")]
    /\ last' = [last EXCEPT ![s] =
                 Called("view_cart", "", None, NothingGiven, "ok",
                        view_cart_body(Some(heap'[self_cart[s]])),
                        <<>>, FALSE, 0, FALSE)]
    /\ UNCHANGED <<pending, products, self_cart, self_menu, menu_summary, phase, distinct_ids>>

view_cart(s) ==
    /\ Ready(s)
    /\ last' = [last EXCEPT ![s] =
                 Called("view_cart", "", None, NothingGiven, "ok",
                        view_cart_body(CartOf(s)),
                        <<>>, FALSE, 0, FALSE)]
    /\ UNCHANGED <<pending, products, heap, self_cart, self_menu, menu_summary, phase, distinct_ids>>

lookup_menu(s, query, say) ==
    /\ Ready(s)
    /\ LET r == lookup_menu_body(self_menu[s], query, say)
       IN  last' = [last EXCEPT ![s] =
                     Called("lookup_menu", "", None, Given(None, None, <<0, 0>>, query), "ok",
                            r.ret, r.said, FALSE, 0, FALSE)]
    /\ UNCHANGED <<pending, products, heap, self_cart, self_menu, menu_summary, phase, distinct_ids>>

transfer_call(s, api, reply) ==
    /\ Ready(s)
    /\ LET r == transfer_call_body(api, reply)
       IN  last' = [last EXCEPT ![s] =
                     Called("transfer_call", "", None, NothingGiven, "ok", r.ret,
                            <<>>, r.logged, 0,
                            r.reply_requested)]
    /\ UNCHANGED <<pending, products, heap, self_cart, self_menu, menu_summary, phase, distinct_ids>>

\* The dialog engine takes what the call handed back.
take_result(s) ==
    /\ phase[s] = "started"
    /\ last[s] # NoCall
    /\ last' = [last EXCEPT ![s] = NoCall]
    /\ UNCHANGED <<pending, products, heap, self_cart, self_menu, menu_summary, phase, distinct_ids>>

\* ------------------------------------------------------------------ overlapping add_to_cart calls
\* The tool is a coroutine whose only await is update_cart, whose only await
\* is get_product_by_id; the event loop may run another invocation of the
\* same session while one is suspended there.  An invocation runs in three
\* steps: up to the await, the lookup reading the table, and from the
\* resumption to the return.
Suspended(s) == {k \in Slots : pending[s][k].stage \in {"lookup", "answered"}}

\* From the tool's entry to its first suspension: the argument checks return
\* at once, a missing cart raises before the lookup is made.
add_to_cart_call(s, k, product_id, quantity, special_instructions) ==
    /\ phase[s] = "started"
    /\ pending[s][k].stage = "idle"
    /\ LET cart == CartOf(s)
           early == IF product_id = "" THEN TRUE
                    ELSE IF quantity_rejected(quantity) THEN TRUE
                    ELSE IsNone(cart)
           r == add_to_cart_body(cart, products, product_id, quantity,
                                 special_instructions, "ok")
           others == Suspended(s) \ {k}
       IN  pending' = [pending EXCEPT ![s] = [j \in Slots |->
               IF j = k THEN
                   IF early
                   THEN Invocation("returned", product_id, quantity,
                                   special_instructions, None, r.ret, FALSE, FALSE)
                   ELSE Invocation("lookup", product_id, quantity,
                                   special_instructions, None, ReturnsNone,
                                   Repeats(cart, product_id), others # {})
               ELSE IF ~early /\ j \in others
                    THEN [pending[s][j] EXCEPT !.overlapped = TRUE]
                    ELSE pending[s][j]]]
    /\ UNCHANGED <<products, heap, self_cart, self_menu, menu_summary, phase, last, distinct_ids>>

\* get_product_by_id reads the products table.
add_to_cart_lookup(s, k, db) ==
    /\ pending[s][k].stage = "lookup"
    /\ pending' = [pending EXCEPT ![s][k] =
                     [@ EXCEPT !.stage = "answered",
                               !.product = get_product_by_id(products, pending[s][k].product_id, db)]]
    /\ UNCHANGED <<products, heap, self_cart, self_menu, menu_summary, phase, last, distinct_ids>>

\* Variant: whether the item is new is decided when the tool is invoked, ahead
\* of the await, and the item is appended on that decision.
add_to_cart_resume_stale(s, k) ==
    /\ pending[s][k].stage = "answered"
    /\ LET inv == pending[s][k]
           cart == CartOf(s)
           r == add_to_cart_resumed(cart, inv.product, inv.product_id,
                                    inv.quantity, inv.special_instructions)
           appended == recalculate_totals(
                           [Val(cart) EXCEPT !.items = Append(@,
                               new_item(Val(inv.product), inv.product_id,
                                        Some(inv.quantity), Some(<<>>),
                                        Some(inv.special_instructions),
                                        Val(Val(inv.product).base_price)))],
                           0, 0, "down")
           new_cart == IF IsNone(r.new_cart) THEN None
                       ELSE IF inv.found_at_call THEN r.new_cart
                       ELSE Some(appended)
       IN  /\ WriteCart(s, new_cart)
           /\ pending' = [pending EXCEPT ![s][k] =
                            [@ EXCEPT !.stage = "returned", !.ret = r.ret]]
           /\ distinct_ids' = [distinct_ids EXCEPT ![s] =
                        @ /\ ~(~IsNone(r.new_cart) /\ Repeats(cart, inv.product_id))]
    /\ UNCHANGED <<products, self_cart, self_menu, menu_summary, phase, last>>

\* From the resumption to the return, with no await on the way: the product
\* check, the existing-item check, the update or append, the totals, the
\* assignment to self.cart and the feedback string.
add_to_cart_resume(s, k) ==
    /\ pending[s][k].stage = "answered"
    /\ LET inv == pending[s][k]
           cart == CartOf(s)
           r == add_to_cart_resumed(cart, inv.product, inv.product_id,
                                    inv.quantity, inv.special_instructions)
       IN  /\ WriteCart(s, r.new_cart)
           /\ pending' = [pending EXCEPT ![s][k] =
                            [@ EXCEPT !.stage = "returned", !.ret = r.ret]]
           /\ distinct_ids' = [distinct_ids EXCEPT ![s] =
                        @ /\ ~(~IsNone(r.new_cart) /\ Repeats(cart, inv.product_id))]
    /\ UNCHANGED <<products, self_cart, self_menu, menu_summary, phase, last>>

\* The caller takes the string an invocation returned.
add_to_cart_taken(s, k) ==
    /\ pending[s][k].stage = "returned"
    /\ pending' = [pending EXCEPT ![s][k] = Idle]
    /\ UNCHANGED <<products, heap, self_cart, self_menu, menu_summary, phase, last, distinct_ids>>

\* ------------------------------------------------------------------ inputs
Quantities == {None} \cup {Some(q) : q \in 1..MaxQty}
ToolQuantities == (-1)..MaxQty
\* <<tax_rate, discount_amount>>: the defaults, and 0.25 with 0.250 KWD off
\* (tax_rate in eighths, discount_amount in fils).
Charges == {<<0, 0>>, <<2, 250>>}
\* <<customer_data, outcome of the menu request>> at session start
Arrivals == {<<None, "fault">>, <<Some("C1"), "ok">>}
Queries == {<<"B">>, <<"H", "o">>, <<"z">>}
\* The rows the model switches between available and unavailable.
Switched == {"P2"}

Next ==
    \/ \E p \in ProductRows : \E v \in PriceOptions(p) : set_base_price(p, v)
    \/ \E p \in Switched : \E b \in BOOLEAN : set_is_available(p, b)
    \/ \E s \in SpecSessions : entrypoint_create_cart(s)
    \/ \E s \in SpecSessions : \E a \in Arrivals : entrypoint_start(s, a[1], a[2])
    \/ \E s \in SpecSessions :
          call_update_cart(s, FALSE, "P1", None, None, None, 0, 0, "ok", "down")
    \/ \E s \in SpecSessions : \E p \in ProductIds : \E q \in Quantities :
       \E ch \in Charges : \E db \in DbOutcomes : \E tie \in FloatTies :
          call_update_cart(s, TRUE, p, q, None, None, ch[1], ch[2], db, tie)
    \/ \E s \in SpecSessions : \E p \in ProductIds : \E q \in ToolQuantities :
       \E db \in DbOutcomes :
          add_to_cart(s, p, q, "", db)
    \/ \E s \in SpecSessions : view_cart(s)
    \/ \E s \in SpecSessions : \E q \in Queries : \E say \in CallOutcomes :
          lookup_menu(s, q, say)
    \/ \E s \in SpecSessions : \E api \in CallOutcomes : \E reply \in CallOutcomes :
          transfer_call(s, api, reply)
    \/ \E s \in SpecSessions : take_result(s)

Spec == Init /\ [][Next]_vars

\* ------------------------------------------------------------------ concurrent sessions
\* Two sessions run by one worker: their entrypoints and their tool calls
\* interleave in any order.
ConcurrentProducts == {"P1", "P2"}
ConcurrentQuantities == {1, 2}
ConcurrentQueries == {<<"B">>}

NextConcurrent ==
    \/ \E s \in AllSessions : entrypoint_create_cart(s)
    \/ \E s \in AllSessions : \E a \in Arrivals : entrypoint_start(s, a[1], a[2])
    \/ \E s \in AllSessions : \E p \in ConcurrentProducts :
       \E q \in ConcurrentQuantities :
          add_to_cart(s, p, q, "", "ok")
    \/ \E s \in AllSessions : view_cart(s)
    \/ \E s \in AllSessions : \E q \in ConcurrentQueries : lookup_menu(s, q, "ok")
    \/ \E s \in AllSessions : take_result(s)

SpecConcurrent == Init /\ [][NextConcurrent]_vars

\* ------------------------------------------------------------------ options and instructions
\* One session whose calls carry selected_options and special_instructions:
\* omitted, empty, and with content.
OptionInputs == {None, Some(<<>>), Some(<<"large">>)}
InstructionInputs == {None, Some(""), Some("no ice")}
ToolInstructions == {"", "extra hot"}
OptionQuantities == {None, Some(2)}

NextOptions ==
    \/ \E s \in SpecSessions : entrypoint_create_cart(s)
    \/ \E s \in SpecSessions : \E a \in Arrivals : entrypoint_start(s, a[1], a[2])
    \/ \E s \in SpecSessions : \E q \in OptionQuantities :
       \E so \in OptionInputs : \E si \in InstructionInputs :
          call_update_cart(s, TRUE, "P1", q, so, si, 0, 0, "ok", "down")
    \/ \E s \in SpecSessions : \E si \in ToolInstructions :
          add_to_cart(s, "P1", 1, si, "ok")
    \/ \E s \in SpecSessions : take_result(s)

SpecOptions == Init /\ [][NextOptions]_vars

\* ------------------------------------------------------------------ overlapping calls of one session
\* One session whose add_to_cart invocations overlap, while the price of a
\* product changes in the data store.
OverlapProducts == {"P1", "P2"}
OverlapQuantities == {0, 1, 2}

NextOverlap ==
    \/ \E v \in PriceOptions("P1") : set_base_price("P1", v)
    \/ \E s \in SpecSessions : entrypoint_create_cart(s)
    \/ \E s \in SpecSessions : \E a \in Arrivals : entrypoint_start(s, a[1], a[2])
    \/ \E s \in SpecSessions : \E k \in Slots : \E p \in OverlapProducts :
       \E q \in OverlapQuantities :
          add_to_cart_call(s, k, p, q, "")
    \/ \E s \in SpecSessions : \E k \in Slots : \E db \in DbOutcomes :
          add_to_cart_lookup(s, k, db)
    \/ \E s \in SpecSessions : \E k \in Slots : add_to_cart_resume(s, k)
    \/ \E s \in SpecSessions : \E k \in Slots : add_to_cart_taken(s, k)

SpecOverlap == Init /\ [][NextOverlap]_vars

\* ------------------------------------------------------------------ properties
HasCart(s) == self_cart[s] # 0
Items(s) == heap[self_cart[s]].items
\* A call of session s completes in this step.
Completes(s, op) == last[s] = NoCall /\ last'[s].op = op
\* The index of the item of product p in the cart of s before / after the step.
Before(s, p) == existing_item(Items(s), p)
After(s, p) == existing_item(Items(s)', p)
CountOf(items, p) == Cardinality({i \in 1..Len(items) : items[i].product_id = p})

\* C1: in every reachable state a cart holds at most one item per product_id
\* (a repeated add updates the entry, it never appends a second one).
C1_OneItemPerProduct ==
    \A s \in AllSessions : HasCart(s) =>
        \A i, j \in 1..Len(Items(s)) :
            Items(s)[i].product_id = Items(s)[j].product_id => i = j

\* A product was added again to a cart that holds two products.
C1_Witness ==
    \E s \in AllSessions :
        /\ HasCart(s) /\ Len(Items(s)) = 2 /\ ~distinct_ids[s]
        /\ last[s].op \in {"update_cart", "add_to_cart"}

\* C2: as long as the update calls named distinct product ids, the subtotal is
\* the sum over the items of quantity * unit_price.
C2_SubtotalOfDistinctIds ==
    \A s \in AllSessions : (HasCart(s) /\ distinct_ids[s]) =>
        heap[self_cart[s]].subtotal =
            SumSeq([i \in 1..Len(Items(s)) |->
                      Items(s)[i].quantity * Items(s)[i].unit_price])

\* Two distinct products were added, the first before its price changed.
C2_Witness ==
    \E s \in AllSessions :
        /\ HasCart(s) /\ distinct_ids[s] /\ Len(Items(s)) = 2
        /\ last[s].op = "update_cart"
        /\ \E i \in 1..2 : /\ Items(s)[i].product_id = "P1"
                           /\ Items(s)[i].quantity > 1
                           /\ Some(Items(s)[i].unit_price) # products["P1"].base_price

\* C3: an item keeps the unit_price it was added with, and its total_price
\* stays quantity * that unit_price, whatever the table does afterwards.
C3_PriceSnapshot ==
    [][\A s \in AllSessions : HasCart(s) =>
          \A i \in 1..Len(Items(s)) :
              /\ Items(s)'[i].unit_price = Items(s)[i].unit_price
              /\ Items(s)'[i].total_price =
                     Items(s)'[i].quantity * Items(s)'[i].unit_price]_vars

\* C4: a successful update_cart with no quantity leaves exactly one item of
\* the product: with quantity 1 if it was not in the cart, with its quantity
\* one higher if it was (so two such calls leave quantity 2).
C4_OmittedQuantityIncrements ==
    [][\A s \in AllSessions :
          (/\ Completes(s, "update_cart")
           /\ last'[s].ret.kind = "cart"
           /\ last'[s].product_id # ""
           /\ IsNone(last'[s].quantity)) =>
              LET p == last'[s].product_id IN
              /\ CountOf(Items(s)', p) = 1
              /\ Items(s)'[After(s, p)].quantity =
                    IF Before(s, p) = 0 THEN 1
                    ELSE Items(s)[Before(s, p)].quantity + 1]_vars

\* The second update_cart without a quantity has left quantity 2.  (With one
\* item and a repeated id behind it, the call found its product in the cart.)
C4_Witness ==
    \E s \in AllSessions :
        /\ HasCart(s) /\ ~distinct_ids[s]
        /\ last[s].op = "update_cart" /\ last[s].ret.kind = "cart"
        /\ IsNone(last[s].quantity)
        /\ Len(Items(s)) = 1 /\ Items(s)[1].quantity = 2
        /\ Items(s)[1].product_id = last[s].product_id

\* C5: a successful update_cart with quantity q (q > 0, as the engine assumes)
\* for a product already in the cart leaves that item with quantity q.
C5_GivenQuantityReplaces ==
    [][\A s \in AllSessions :
          (/\ Completes(s, "update_cart")
           /\ last'[s].ret.kind = "cart"
           /\ ~IsNone(last'[s].quantity)
           /\ Before(s, last'[s].product_id) # 0) =>
              LET p == last'[s].product_id IN
              /\ After(s, p) = Before(s, p)
              /\ Items(s)'[After(s, p)].quantity = Val(last'[s].quantity)]_vars

\* update_cart with quantity 1 found its product in the cart (one item, a
\* repeated id behind it) and left it with quantity 1.
C5_Witness ==
    \E s \in AllSessions :
        /\ HasCart(s) /\ ~distinct_ids[s]
        /\ last[s].op = "update_cart" /\ last[s].ret.kind = "cart"
        /\ last[s].quantity = Some(1)
        /\ Len(Items(s)) = 1 /\ Items(s)[1].quantity = 1
        /\ Items(s)[1].product_id = last[s].product_id

\* The table says the product is unknown or unavailable.
Unavailable(p) ==
    IF p \in DOMAIN products THEN ~products[p].is_available ELSE TRUE

\* C6: update_cart on a cart, for a product id the table has no available
\* row of, raises, and the cart object is left as it was.
C6_UnavailableRaisesAndKeepsCart ==
    [][\A s \in AllSessions :
          (/\ Completes(s, "update_cart")
           /\ last'[s].lookups = 1
           /\ Unavailable(last'[s].product_id)) =>
              /\ last'[s].ret.kind = "exception"
              /\ heap' = heap]_vars

\* update_cart raised for P2 while it is unavailable, on a cart that holds
\* P2 and a discount.
C6_Witness ==
    \E s \in AllSessions :
        /\ HasCart(s) /\ Before(s, "P2") # 0
        /\ heap[self_cart[s]].discount_amount # 0
        /\ last[s].op = "update_cart" /\ last[s].product_id = "P2"
        /\ last[s].ret.kind = "exception"
        /\ ~products["P2"].is_available

RejectionStrings ==
    {"Quantity must be a positive number.", "Invalid product ID provided."}

\* C7: add_to_cart with quantity <= 0 returns a rejection string, makes no
\* product lookup and leaves the cart object as it was.
C7_NonPositiveQuantityRejected ==
    [][\A s \in AllSessions :
          (/\ Completes(s, "add_to_cart")
           /\ Val(last'[s].quantity) <= 0) =>
              /\ last'[s].ret.kind = "str"
              /\ last'[s].ret.msg \in RejectionStrings
              /\ last'[s].lookups = 0
              /\ heap' = heap]_vars

\* add_to_cart("P1", 0) was rejected on a cart that holds P1.
C7_Witness ==
    \E s \in AllSessions :
        /\ HasCart(s) /\ Before(s, "P1") # 0
        /\ last[s].op = "add_to_cart" /\ last[s].product_id = "P1"
        /\ last[s].quantity = Some(0)
        /\ last[s].ret.msg = "Quantity must be a positive number."

Apology == "Sorry, I couldn't add that item to your cart. {e}"

\* The update_cart call that add_to_cart makes for p in this state raises
\* when the data store answers db.
UpdateFails(s, p, db) ==
    \/ ~HasCart(s)
    \/ db = "fault"
    \/ Unavailable(p)
    \/ IsNone(products[p].base_price)

\* C8: add_to_cart always returns a str; when its arguments pass validation
\* and update_cart raises (whatever the data store answers), the str is the
\* apology and the cart object is left as it was.  The same call on an
\* Assistant that holds no cart returns the apology and writes no cart.
C8_AddToCartAlwaysSpeakable ==
    [][\A s \in AllSessions : Completes(s, "add_to_cart") =>
          /\ last'[s].ret.kind = "str"
          /\ (/\ last'[s].product_id # ""
              /\ Val(last'[s].quantity) > 0
              /\ UpdateFails(s, last'[s].product_id, last'[s].db)) =>
                 /\ last'[s].ret.msg = Apology
                 /\ heap' = heap
          /\ LET r == add_to_cart_body(None, products, last'[s].product_id,
                                       Val(last'[s].quantity), "", last'[s].db)
             IN  /\ r.ret.kind = "str"
                 /\ (last'[s].product_id # "" /\ Val(last'[s].quantity) > 0) =>
                        (r.ret.msg = Apology /\ IsNone(r.new_cart))]_vars

\* add_to_cart apologised for the row with no price, on a cart with an item.
C8_Witness ==
    \E s \in AllSessions :
        /\ HasCart(s) /\ Len(Items(s)) > 0
        /\ last[s].op = "add_to_cart" /\ last[s].product_id = "P3"
        /\ last[s].ret.msg = Apology

Tools == {"add_to_cart", "view_cart", "lookup_menu", "transfer_call"}

\* C9: every tool ends by returning a str or None, whatever fails.
C9_NoExceptionCrossesTools ==
    \A s \in AllSessions :
        last[s].op \in Tools => last[s].ret.kind \in {"str", "None"}

\* C10: view_cart and lookup_menu leave the cart of the session as it was.
C10_ViewAndLookupReadOnly ==
    [][\A s \in AllSessions :
          (Completes(s, "view_cart") \/ Completes(s, "lookup_menu")) =>
              /\ self_cart'[s] = self_cart[s]
              /\ heap' = heap]_vars

\* view_cart answered on a cart with two items.
C10_Witness ==
    \E s \in AllSessions :
        /\ HasCart(s) /\ Len(Items(s)) = 2
        /\ last[s].op = "view_cart"
        /\ last[s].ret.msg = "You have {n} items in your cart for a total of {total_amount} KWD."

\* C11: a transfer_call whose transfer request failed (the fault is logged)
\* has asked for the apology and returns normally, so the caller was answered
\* before the tool returned; the cart is as it was; a transfer that succeeded
\* returns None and asks for nothing.
C11_FailedTransferIsAnswered ==
    [][\A s \in AllSessions : Completes(s, "transfer_call") =>
          /\ heap' = heap
          /\ last'[s].logged =>
                (last'[s].reply_requested /\ last'[s].ret = ReturnsNone)
          /\ ~last'[s].logged =>
                (~last'[s].reply_requested /\ last'[s].ret = ReturnsNone)]_vars

\* C12: a session whose tools can be called has a cart; the cart a session
\* holds is never exchanged for another; and a step that changes the cart
\* object of a session is a call of update_cart (made directly or by
\* add_to_cart) of that session.
C12_CartChangedOnlyByEngine ==
    [][\A s \in AllSessions :
          /\ phase'[s] = "started" => self_cart'[s] # 0
          /\ HasCart(s) => self_cart'[s] = self_cart[s]
          /\ (HasCart(s) /\ heap'[self_cart[s]] # heap[self_cart[s]]) =>
                (Completes(s, "update_cart") \/ Completes(s, "add_to_cart"))]_vars

\* The step is one of session s: its entrypoint moved on, or one of its calls
\* started or handed back its result.
StepOf(s) == phase'[s] # phase[s] \/ last'[s] # last[s]

\* C13: no two sessions hold the same cart object, and a step of one session
\* leaves the cart and the compact menu that any other session holds as they
\* were, in every interleaving of the sessions' entrypoints and tool calls.
C13_SessionsOwnCartAndMenu ==
    [][\A s, t \in AllSessions : (s # t /\ StepOf(s)) =>
          /\ (self_cart'[s] # 0 /\ self_cart'[t] # 0) => self_cart'[s] # self_cart'[t]
          /\ CartOf(t)' = CartOf(t)
          /\ self_menu'[t] = self_menu[t]
          /\ menu_summary'[t] = menu_summary[t]]_vars

\* Both sessions have filled their own cart, each with another product, and
\* hold different menus; the last call was an add of the second session.
C13_Witness ==
    /\ HasCart("s1") /\ HasCart("s2")
    /\ Len(Items("s1")) = 1 /\ Items("s1")[1].product_id = "P1"
    /\ Len(Items("s2")) = 1 /\ Items("s2")[1].product_id = "P2"
    /\ self_menu["s1"] # self_menu["s2"]
    /\ last["s2"].op = "add_to_cart" /\ last["s2"].ret.kind = "str"
    /\ last["s1"] = NoCall

\* The product-not-found error update_cart raises for product id p.
NotFound(p) == <<"Product ", p, " not found or unavailable">>

\* The call that completed reported the product-not-found error: update_cart
\* by raising it, add_to_cart by returning the apology that embeds it.
ReportsNotFound(c) ==
    IF c.ret.kind = "exception" \/ (c.ret.kind = "str" /\ c.ret.msg = Apology)
    THEN c.ret.args = NotFound(c.product_id)
    ELSE FALSE

\* C14: get_product_by_id answers None only for a product id that has no
\* available row, also when the request to the data store fails; so no
\* update_cart or add_to_cart call reports "not found or unavailable" for a
\* product that the table holds and offers.
C14_FaultIsNotMissing ==
    [][\A s \in AllSessions :
          (Completes(s, "update_cart") \/ Completes(s, "add_to_cart")) =>
              /\ IsNone(get_product_by_id(products, last'[s].product_id, last'[s].db))
                    => Unavailable(last'[s].product_id)
              /\ ReportsNotFound(last'[s]) => Unavailable(last'[s].product_id)]_vars

\* C15: in every reachable state every item of every cart has a quantity
\* above 0, whatever quantities (negative and 0 included) add_to_cart was
\* called with.
C15_QuantitiesPositive ==
    \A s \in AllSessions : HasCart(s) =>
        \A i \in 1..Len(Items(s)) : Items(s)[i].quantity > 0

\* add_to_cart was called with quantity -1 for a product of a cart that
\* holds two items, and was turned down.
C15_Witness ==
    \E s \in AllSessions :
        /\ HasCart(s) /\ Len(Items(s)) = 2
        /\ last[s].op = "add_to_cart" /\ last[s].quantity = Some(-1)
        /\ Before(s, last[s].product_id) # 0
        /\ last[s].ret.msg = "Quantity must be a positive number."

\* The k-th smallest element of a finite set of numbers.
Nth(S, k) == CHOOSE i \in S : Cardinality({j \in S : j < i}) = k - 1

\* The positions of the menu items that have the query, in lower case, in
\* one of their six text fields, lowered.
MatchingPositions(menu, query) ==
    {i \in 1..Len(menu.items) : item_matches(Lower(query), menu.items[i])}

C17_ViewCartPhrasing ==
    [][\A s \in AllSessions : Completes(s, "view_cart") =>
          LET c == heap[self_cart[s]]
              n == Len(c.items)
          IN  last'[s].ret =
                IF n = 0 THEN Str("Your cart is empty right now.", <<>>)
                ELSE IF n = 1 THEN
                    Str("You have {quantity} {name} in your cart for {total_amount} KWD.",
                        <<c.items[1].quantity, c.items[1].name, c.total_amount>>)
                ELSE
                    Str("You have {n} items in your cart for a total of {total_amount} KWD.",
                        <<n, c.total_amount>>)]_vars

\* view_cart answered on a cart with one item, three of it, and a discount.
C17_Witness ==
    \E s \in AllSessions :
        /\ HasCart(s) /\ Len(Items(s)) = 1 /\ Items(s)[1].quantity = 3
        /\ heap[self_cart[s]].discount_amount # 0
        /\ last[s].op = "view_cart"
        /\ last[s].ret.msg = "You have {quantity} {name} in your cart for {total_amount} KWD."

\* C18: summarize_menu returns "No menu available." for an absent menu and
\* for a compact menu with no items; so the summary a session puts into its
\* system message is that sentence whenever its compact menu is empty.
C18_EmptyMenuSummary ==
    /\ summarize_menu(None, TopN).msg = "No menu available."
    /\ \A s \in AllSessions :
          (~IsNone(self_menu[s]) /\ Val(self_menu[s]).items = <<>>) =>
              Val(menu_summary[s]).msg = "No menu available."

\* The call of session s that completes in this step is an update_cart that
\* returned the cart, or an add_to_cart whose update_cart did.
UpdateSucceeds(s) ==
    \/ Completes(s, "update_cart") /\ last'[s].ret.kind = "cart"
    \/ /\ Completes(s, "add_to_cart")
       /\ last'[s].ret.msg \in
            {"Added {name} (quantity: {quantity}) to your cart. Cart total: {total_amount} KWD",
             "Item added to cart successfully"}

\* x is n rounded to 2 places (a multiple of 10 fils nearest to n fils).
RoundedTo2(x, n) == x % 10 = 0 /\ x - n <= 5 /\ n - x <= 5

\* C19: after every successful update_cart, with a product id or without,
\* the cart's subtotal is the sum of its items' total_price, its
\* discount_amount the one given, its tax_amount subtotal * tax_rate rounded
\* to 2 places, and its total_amount subtotal + tax_amount - discount_amount
\* rounded to 2 places.
C19_TotalsRecomputed ==
    [][\A s \in AllSessions : UpdateSucceeds(s) =>
          LET c == heap'[self_cart[s]]
              tax_rate == last'[s].given.charges[1]
              subtotal == SumSeq([i \in 1..Len(c.items) |-> c.items[i].total_price])
          IN  /\ c.subtotal = subtotal
              /\ c.discount_amount = last'[s].given.charges[2]
              /\ c.tax_amount = Round2(subtotal * tax_rate, 8)
              /\ RoundedTo2(c.total_amount,
                            c.subtotal + c.tax_amount - c.discount_amount)]_vars

\* update_cart with no product id has refreshed the totals of a cart with
\* two items under a tax rate and a discount, and the sum it had to round
\* lay half way between two amounts.
C19_Witness ==
    \E s \in AllSessions :
        /\ HasCart(s) /\ Len(Items(s)) = 2
        /\ last[s].op = "update_cart" /\ last[s].product_id = ""
        /\ last[s].ret.kind = "cart" /\ last[s].given.charges = <<2, 250>>
        /\ LET c == heap[self_cart[s]]
           IN  (c.subtotal + c.tax_amount - c.discount_amount) % 10 = 5

\* C20: after a successful update (update_cart, or add_to_cart through it) for
\* a product already in the cart, the item's selected_options are the ones
\* given, an empty list included, and its special_instructions the ones
\* given, an empty string included; what is omitted stays as it was stored.
C20_GivenValuesReplace ==
    [][\A s \in AllSessions :
          (UpdateSucceeds(s) /\ Before(s, last'[s].product_id) # 0) =>
              LET old == Items(s)[Before(s, last'[s].product_id)]
                  new == Items(s)'[After(s, last'[s].product_id)]
                  given == last'[s].given
              IN  /\ new.selected_options =
                        IF IsNone(given.selected_options) THEN old.selected_options
                        ELSE Val(given.selected_options)
                  /\ new.special_instructions =
                        IF IsNone(given.special_instructions) THEN old.special_instructions
                        ELSE Val(given.special_instructions)]_vars

\* The feedback string of a successful add_to_cart.
Confirmation ==
    "Added {name} (quantity: {quantity}) to your cart. Cart total: {total_amount} KWD"

\* C21: when add_to_cart invocations of one session overlap on the product
\* lookup, then at every point of every interleaving the cart holds at most
\* one item per product, exactly one for a product an invocation has
\* confirmed, and its totals are those of its items: the subtotal is the sum
\* of the items' total_price, no tax or discount is charged and the total is
\* the subtotal rounded to two places.
C21_OverlapKeepsOneItem ==
    \A s \in AllSessions : HasCart(s) =>
        LET c == heap[self_cart[s]]
        IN  /\ \A p \in ProductIds : CountOf(c.items, p) <= 1
            /\ \A k \in Slots :
                  (pending[s][k].stage = "returned" /\ pending[s][k].ret.msg = Confirmation)
                      => CountOf(c.items, pending[s][k].product_id) = 1
            /\ c.subtotal = SumSeq([i \in 1..Len(c.items) |-> c.items[i].total_price])
            /\ c.tax_amount = 0
            /\ c.discount_amount = 0
            /\ RoundedTo2(c.total_amount, c.subtotal)

\* C21 witness: two invocations for P1 with different quantities were both
\* suspended on the lookup while the cart had no P1 item, both have returned
\* their confirmation, and the cart holds one P1 item.
C21_Witness ==
    /\ HasCart("s1")
    /\ \A k \in Slots :
          /\ pending["s1"][k].stage = "returned"
          /\ pending["s1"][k].product_id = "P1"
          /\ pending["s1"][k].overlapped
          /\ ~pending["s1"][k].found_at_call
          /\ pending["s1"][k].ret.msg = Confirmation
    /\ pending["s1"][1].quantity # pending["s1"][2].quantity
    /\ CountOf(Items("s1"), "P1") = 1

\* C22: an add_to_cart(p, q) that returns its confirmation leaves exactly one
\* item for p, with quantity q whatever the quantity was before (so a repeated
\* add_to_cart(p) with the default quantity 1 leaves 1), and the confirmation
\* names that item, that quantity and the total_amount of the cart as it is
\* after the call.
C22_ToolSetsQuantity ==
    [][\A s \in AllSessions :
          (Completes(s, "add_to_cart") /\ last'[s].ret.msg = Confirmation) =>
              LET c == heap'[self_cart[s]]
                  p == last'[s].product_id
                  q == Val(last'[s].quantity)
                  idx == existing_item(c.items, p)
              IN  /\ idx # 0
                  /\ CountOf(c.items, p) = 1
                  /\ c.items[idx].quantity = q
                  /\ last'[s].ret.args = <<c.items[idx].name, q, c.total_amount>>]_vars

\* C22 witness: add_to_cart(P1) with the default quantity has just confirmed
\* on a cart whose only item, P1, had been named by an earlier call: the item
\* has quantity 1.
C22_Witness ==
    /\ HasCart("s1")
    /\ last["s1"].op = "add_to_cart"
    /\ last["s1"].product_id = "P1"
    /\ last["s1"].quantity = Some(1)
    /\ last["s1"].ret.msg = Confirmation
    /\ ~distinct_ids["s1"]
    /\ Len(Items("s1")) = 1
    /\ Items("s1")[1].quantity = 1

\* A successful call that reaches the cart engine with no tax rate and no
\* discount, on a cart that carried a tax or a discount from an earlier call.
OmitsCharges(s) ==
    /\ UpdateSucceeds(s)
    /\ last'[s].given.charges = <<0, 0>>
    /\ last'[s].charged_before

\* C23 as stated: a successful update that omits tax rate and discount, after
\* an earlier call applied them, leaves discount_amount 0, tax_amount 0 and
\* total_amount equal to the subtotal.
C23_TotalResetToSubtotal ==
    [][\A s \in AllSessions : OmitsCharges(s) =>
          LET c == heap'[self_cart[s]]
          IN  /\ c.discount_amount = 0
              /\ c.tax_amount = 0
              /\ c.total_amount = c.subtotal]_vars

\* C23 amended: a successful update that omits tax rate and discount, after an
\* earlier call applied them, leaves discount_amount 0, tax_amount 0 and
\* total_amount equal to the subtotal rounded to two places (half to even).
C23_TotalResetToRoundedSubtotal ==
    [][\A s \in AllSessions : OmitsCharges(s) =>
          LET c == heap'[self_cart[s]]
          IN  /\ c.discount_amount = 0
              /\ c.tax_amount = 0
              /\ c.total_amount = Round2(c.subtotal, 1)]_vars

\* C23 witness: add_to_cart has confirmed on a cart that carried a tax or a
\* discount; the cart now has neither, its subtotal has a third decimal and
\* its total is the subtotal rounded.
C23_Witness ==
    /\ HasCart("s1")
    /\ last["s1"].op = "add_to_cart"
    /\ last["s1"].ret.msg = Confirmation
    /\ last["s1"].charged_before
    /\ heap[self_cart["s1"]].discount_amount = 0
    /\ heap[self_cart["s1"]].tax_amount = 0
    /\ heap[self_cart["s1"]].subtotal % 10 # 0
    /\ heap[self_cart["s1"]].total_amount = Round2(heap[self_cart["s1"]].subtotal, 1)
    /\ heap[self_cart["s1"]].total_amount # heap[self_cart["s1"]].subtotal

\* C24: no step of a session removes or reorders the items of its cart: the
\* session keeps the cart it holds, the number of items never decreases, and
\* every item stays at its position with its product_id and its name.
C24_ItemsOnlyAppended ==
    [][\A s \in AllSessions : HasCart(s) =>
          /\ self_cart'[s] = self_cart[s]
          /\ Len(heap'[self_cart[s]].items) >= Len(Items(s))
          /\ \A i \in 1..Len(Items(s)) :
                /\ heap'[self_cart[s]].items[i].product_id = Items(s)[i].product_id
                /\ heap'[self_cart[s]].items[i].name = Items(s)[i].name]_vars

\* C24 witness: the cart holds P1 and then P2, and the call just made has
\* updated P1, which was added before P2: it is still first, P2 still second.
C24_Witness ==
    /\ HasCart("s1")
    /\ Len(Items("s1")) = 2
    /\ Items("s1")[1].product_id = "P1"
    /\ Items("s1")[2].product_id = "P2"
    /\ last["s1"].op \in {"add_to_cart", "update_cart"}
    /\ last["s1"].product_id = "P1"
    /\ last["s1"].ret.kind \in {"cart", "str"}
    /\ last["s1"].logged = FALSE
    /\ last["s1"].lookups = 1

====
